---- MODULE Spec2Model ----
(***************************************************************************)
(* Model of jobs/enhanced_device_import.py: the slug generator, the        *)
(* elevation-image resolver, the device-type importer and the two jobs     *)
(* that drive it, over a shared store (Manufacturer, DeviceType, the nine  *)
(* component-template tables, DeviceTypeImport, GitRepository) and a       *)
(* filesystem.                                                             *)
(*                                                                         *)
(* A Python str is a sequence of one-character strings.  A path is a str   *)
(* whose separator is the character "/"; longer tokens such as "repo" or   *)
(* ".png" stand for a fixed run of ordinary characters.                    *)
(***************************************************************************)
EXTENDS Integers, Sequences, FiniteSets, TLC

VARIABLES
    manufacturers,      \* Manufacturer table: the set of registered names
    deviceTypes,        \* DeviceType table: sequence of rows, pk = index
    components,         \* the component-template tables, in insertion order
    deviceTypeImports,  \* DeviceTypeImport table: filename -> device_type_data
    gitRepos,           \* whether GitRepository slug="devicetype_library" exists
    uniqueTogether,     \* whether the store rejects a second (manufacturer, model)
    fs,                 \* filesystem: the set of existing (resolved) paths
    workers,            \* the job workers that run invocations
    pc,                 \* per worker: position in run / import_device_type_with_images
    data,               \* per worker: the data dictionary being imported
    git_repo,           \* per worker: the git_repo argument ("None" or "repo")
    devtype,            \* per worker: the in-memory DeviceType instance
    key,                \* per worker: index into COMPONENTS of the loop at 143
    exc,                \* per worker: the exception the last invocation ended with
    log,                \* per worker: messages the job logger received
    hist,               \* per worker: history of the current/last invocation
    runs,               \* number of invocations started so far
    arg,                \* argument of a direct call of a pure helper
    ret                 \* its result

vars == <<manufacturers, deviceTypes, components, deviceTypeImports, gitRepos,
          uniqueTogether, fs, workers, pc, data, git_repo, devtype, key, exc,
          log, hist, runs, arg, ret>>

storeVars == <<manufacturers, deviceTypes, components, deviceTypeImports,
               gitRepos, uniqueTogether, fs>>

procVars == <<workers, pc, data, git_repo, devtype, key, exc, log, hist, runs>>

(***************************************************************************)
(* Bounds of the model.                                                    *)
(***************************************************************************)
MaxLen == 2       \* longest manufacturer / model string given to slugify
MaxRuns == 3      \* invocations started in one behaviour of two workers
MaxSerialRuns == 2  \* invocations started in one behaviour of one worker
MaxItems == 2     \* longest component list of a data dictionary
MaxKinds == 2     \* most component kinds present in one data dictionary

(***************************************************************************)
(* Characters.                                                             *)
(***************************************************************************)
Uppers == <<"A","B","C","D","E","F","G","H","I","J","K","L","M",
            "N","O","P","Q","R","S","T","U","V","W","X","Y","Z">>

Lowers == <<"a","b","c","d","e","f","g","h","i","j","k","l","m",
            "n","o","p","q","r","s","t","u","v","w","x","y","z">>

Digits == {"0","1","2","3","4","5","6","7","8","9"}

LowerSet == {Lowers[i] : i \in 1..26}

\* \s of the re module, over ASCII
Whitespace == {" ", "\t", "\n", "\r", "\f"}

\* str.lower(), one character
LowerChar(c) ==
    IF \E i \in 1..26 : Uppers[i] = c
    THEN Lowers[CHOOSE i \in 1..26 : Uppers[i] = c]
    ELSE c

\* str.lower()
Lower(s) == [i \in 1..Len(s) |-> LowerChar(s[i])]

\* re.sub(r'[C]+', rep, s): every maximal run of characters of C becomes rep
RECURSIVE SubRuns(_, _, _)
SubRuns(s, C, rep) ==
    IF s = <<>> THEN <<>>
    ELSE IF s[1] \in C
         THEN IF Len(s) > 1 /\ s[2] \in C
              THEN SubRuns(Tail(s), C, rep)
              ELSE <<rep>> \o SubRuns(Tail(s), C, rep)
         ELSE <<s[1]>> \o SubRuns(Tail(s), C, rep)

\* re.sub(r'[^C]', '', s): every character outside C is deleted
RECURSIVE DeleteOutside(_, _)
DeleteOutside(s, C) ==
    IF s = <<>> THEN <<>>
    ELSE IF s[1] \in C
         THEN <<s[1]>> \o DeleteOutside(Tail(s), C)
         ELSE DeleteOutside(Tail(s), C)

\* str.lstrip(c)
RECURSIVE LStrip(_, _)
LStrip(s, c) ==
    IF s # <<>> /\ s[1] = c THEN LStrip(Tail(s), c) ELSE s

\* str.rstrip(c)
RECURSIVE RStrip(_, _)
RStrip(s, c) ==
    IF s # <<>> /\ s[Len(s)] = c THEN RStrip(SubSeq(s, 1, Len(s) - 1), c) ELSE s

\* str.strip(c)
Strip(s, c) == RStrip(LStrip(s, c), c)

(***************************************************************************)
(* slugify_device_name, step by step as the source does it.                *)
(***************************************************************************)
Combined(manufacturer_name, model_name) ==
    manufacturer_name \o <<" ">> \o model_name

SpacesToHyphens(slug) == SubRuns(slug, Whitespace \cup {"_"}, "-")

KeepSlugChars(slug) == DeleteOutside(slug, LowerSet \cup Digits \cup {"-"})

\* the hyphen runs are left as they are
CollapseHyphensSkipped(slug) == slug

CollapseHyphens(slug) == SubRuns(slug, {"-"}, "-")

StripHyphens(slug) == Strip(slug, "-")

slugify_device_name(manufacturer_name, model_name) ==
    StripHyphens(CollapseHyphens(KeepSlugChars(SpacesToHyphens(
        Lower(Combined(manufacturer_name, model_name))))))

(***************************************************************************)
(* Paths and the filesystem.                                               *)
(***************************************************************************)
\* git_repo.filesystem_path of the devicetype_library repository
RepoPath == <<"/", "repo">>

\* posixpath.join of two parts: an absolute second part discards the first
PathJoin(a, b) ==
    IF b # <<>> /\ b[1] = "/" THEN b
    ELSE IF a = <<>> \/ a[Len(a)] = "/" THEN a \o b
    ELSE a \o <<"/">> \o b

\* the components the operating system walks for a path: runs of "/" count once
RECURSIVE PathComponents(_)
PathComponents(path) ==
    IF path = <<>> THEN <<>>
    ELSE IF path[1] = "/" THEN PathComponents(Tail(path))
    ELSE LET stops == {i \in 1..Len(path) : path[i] = "/"}
             n == IF stops = {} THEN Len(path) + 1
                  ELSE CHOOSE i \in stops : \A j \in stops : i <= j
         IN  <<SubSeq(path, 1, n - 1)>> \o PathComponents(SubSeq(path, n, Len(path)))

\* os.path.exists against a filesystem state
PathExists(files, path) == PathComponents(path) \in files

\* os.path.basename
RECURSIVE Basename(_)
Basename(path) ==
    IF \E i \in 1..Len(path) : path[i] = "/" THEN Basename(Tail(path)) ELSE path

NoPath == <<>>

\* .jpg probed before .png
ExtensionsJpgFirst == <<".jpg", ".png", ".jpeg", ".svg">>

\* the list `extensions` of find_elevation_image
Extensions == <<".png", ".jpg", ".jpeg", ".svg">>

\* os.path.join(repo_path, 'elevation-images', manufacturer_name)
ElevationDir(repo_path, manufacturer_name) ==
    PathJoin(PathJoin(repo_path, <<"elevation-images">>), manufacturer_name)

\* f"{slug}.{image_type}{ext}"
ImageFilename(slug, image_type, ext) == slug \o <<".", image_type, ext>>

\* the extensions, in probing order, whose candidate file exists
ExistingExtensions(files, elevation_dir, slug, image_type) ==
    {i \in 1..Len(Extensions) :
        PathExists(files, PathJoin(elevation_dir,
                              ImageFilename(slug, image_type, Extensions[i])))}

find_elevation_image(files, repo_path, manufacturer_name, model_name, image_type) ==
    LET slug == slugify_device_name(manufacturer_name, model_name)
        elevation_dir == ElevationDir(repo_path, manufacturer_name)
        found == ExistingExtensions(files, elevation_dir, slug, image_type)
    IN  IF ~PathExists(files, elevation_dir) THEN NoPath
        ELSE IF found = {} THEN NoPath
        ELSE LET first == CHOOSE i \in found : \A j \in found : i <= j
             IN  PathJoin(elevation_dir,
                          ImageFilename(slug, image_type, Extensions[first]))

(***************************************************************************)
(* Dictionaries.  A Python dict over a known set of keys is a function on  *)
(* those keys; a key the dict does not hold maps to Missing.               *)
(***************************************************************************)
Missing == "<missing>"

Has(d, k) == d[k] # Missing

\* the key's presence is taken for its truth
TruthyIfPresent(d, k) == d[k] # Missing

\* bool(value) of d.get(k)
Truthy(d, k) == d[k] \notin {Missing, "False", ""}

\* {k: v for k, v in d.items() if k not in excluded}
Without(d, excluded) == [k \in DOMAIN d |-> IF k \in excluded THEN Missing ELSE d[k]]

(***************************************************************************)
(* The tables of the module.                                               *)
(***************************************************************************)
\* rear-ports and interfaces change places
ComponentsRearPortsFirst ==
    <<"console-ports", "console-server-ports", "power-ports", "power-outlets",
      "rear-ports", "interfaces", "front-ports", "device-bays", "module-bays">>

COMPONENTS ==
    <<"console-ports", "console-server-ports", "power-ports", "power-outlets",
      "interfaces", "rear-ports", "front-ports", "device-bays", "module-bays">>

ComponentKeys == {COMPONENTS[i] : i \in 1..Len(COMPONENTS)}

\* poe_type is not stripped
StripOnlyPoeMode(k) == IF k = "interfaces" THEN {"poe_mode"} ELSE {}

STRIP_KEYWORDS(k) == IF k = "interfaces" THEN {"poe_mode", "poe_type"} ELSE {}

\* custom_field_mapping, in dict order: <<custom-field key, data key>>
custom_field_mapping ==
    << <<"cf_slug", "slug">>, <<"cf_weight", "weight">>,
       <<"cf_weight_unit", "weight_unit">>, <<"cf_airflow", "airflow">>,
       <<"cf_front_image", "front_image">>, <<"cf_rear_image", "rear_image">> >>

CfKeys == {custom_field_mapping[i][1] : i \in 1..Len(custom_field_mapping)}

DataKeys == {custom_field_mapping[i][2] : i \in 1..Len(custom_field_mapping)}

ItemFields == {"name", "poe_mode", "poe_type"}

(***************************************************************************)
(* Values of the store and of a worker.                                    *)
(***************************************************************************)
NoImage == <<>>

NoCf == [k \in CfKeys |-> Missing]

NoDevType == [pk |-> 0, front_image |-> NoImage, rear_image |-> NoImage, cf |-> NoCf]

NoData == [manufacturer |-> <<>>, model |-> <<>>, kinds |-> {},
           items |-> [k \in ComponentKeys |-> <<>>],
           fields |-> [k \in DataKeys |-> Missing]]

NoHist == [via |-> "none", existed |-> FALSE, steps |-> <<>>, ended |-> "none",
           front |-> "none", rear |-> "none", cf |-> "none", cf_before |-> NoCf]

\* the rows of DeviceType with this manufacturer and model
Matching(rows, manufacturer, model) ==
    {i \in 1..Len(rows) : rows[i].manufacturer = manufacturer /\ rows[i].model = model}

\* the component templates of one kind that reference one device type, in order
ComponentsOf(rows, pk, k) ==
    SelectSeq(rows, LAMBDA c : c.device_type = pk /\ c.kind = k)

\* component_class(device_type=devtype, **{k: v ... if k not in STRIP_KEYWORDS.get(key, [])})
NewComponent(k, pk, item) ==
    [device_type |-> pk, kind |-> k, fields |-> Without(item, STRIP_KEYWORDS(k))]

\* the list comprehension at 145-151
ComponentList(k, pk, items) ==
    [i \in 1..Len(items) |-> NewComponent(k, pk, items[i])]

\* the first index >= i of COMPONENTS whose key is in data, or Len(COMPONENTS)+1
NextKey(d, i) ==
    LET later == {j \in i..Len(COMPONENTS) : COMPONENTS[j] \in d.kinds}
    IN  IF later = {} THEN Len(COMPONENTS) + 1
        ELSE CHOOSE j \in later : \A l \in later : j <= l

\* cf_data: the custom-field keys whose data key is in data, in mapping order
CfData(d) ==
    SelectSeq(custom_field_mapping, LAMBDA m : Has(d.fields, m[2]))

\* only the first entry of cf_data is staged
StagedFirstOnly(cf, d, n) ==
    LET cf_data == CfData(d)
        m == IF n > 1 THEN 1 ELSE n
    IN  [k \in CfKeys |->
            IF \E i \in 1..m : cf_data[i][1] = k
            THEN d.fields[cf_data[CHOOSE i \in 1..m : cf_data[i][1] = k][2]]
            ELSE cf[k]]

\* devtype.cf[cf_key] = value, for the first n entries of cf_data
Staged(cf, d, n) ==
    LET cf_data == CfData(d)
    IN  [k \in CfKeys |->
            IF \E i \in 1..n : cf_data[i][1] = k
            THEN d.fields[cf_data[CHOOSE i \in 1..n : cf_data[i][1] = k][2]]
            ELSE cf[k]]

\* Model.save(): the row takes every field of the in-memory instance
SaveInstance(rows, inst) ==
    [rows EXCEPT ![inst.pk] = [@ EXCEPT !.front_image = inst.front_image,
                                        !.rear_image = inst.rear_image,
                                        !.cf = inst.cf]]

(***************************************************************************)
(* The jobs and the importer, one action per step of a worker.  A step     *)
(* holds at most one access to the store, so that workers interleave       *)
(* between any two of them.                                                *)
(***************************************************************************)
fixedVars == <<deviceTypeImports, gitRepos, uniqueTogether, fs, workers, arg, ret>>

PairOf(p) == <<data[p].manufacturer, data[p].model>>

\* self.logger / logger: the job passes its logger, a direct caller none
Logged(p, msg) == IF hist[p].via = "run" THEN log[p] \cup {msg} ELSE log[p]

\* what run's handler at 300-305 adds for the exception leaving the importer
RunHandler(p, e) ==
    IF hist[p].via = "run" /\ e = "ValueError"
    THEN log[p] \cup {"error: already exists"}
    ELSE log[p]

\* the exceptions the creation at 136-137 ends with when the store refuses the
\* pair: the form's own uniqueness validation (save() raises ValueError) or the
\* database constraint (IntegrityError)
CreateRejections == {"ValueError", "IntegrityError"}

\* WelcomeWizardImportDeviceType.run, 267-279
RunJob(p, filename) ==
    LET device_type == IF filename = "" THEN "none.yaml" ELSE filename
    IN  /\ p \in workers
        /\ pc[p] = "idle"
        /\ runs > 0
        /\ runs' = runs - 1
        /\ exc' = [exc EXCEPT ![p] = "None"]
        /\ devtype' = [devtype EXCEPT ![p] = NoDevType]
        /\ git_repo' = [git_repo EXCEPT ![p] = "None"]
        /\ key' = [key EXCEPT ![p] = 1]
        /\ IF device_type \in DOMAIN deviceTypeImports
           THEN /\ data' = [data EXCEPT ![p] = deviceTypeImports[device_type]]
                /\ hist' = [hist EXCEPT ![p] = [NoHist EXCEPT !.via = "run"]]
                /\ log' = [log EXCEPT ![p] = {}]
                /\ pc' = [pc EXCEPT ![p] = "run_manufacturer"]
           ELSE /\ data' = [data EXCEPT ![p] = NoData]
                /\ hist' = [hist EXCEPT ![p] =
                               [NoHist EXCEPT !.via = "run", !.ended = "not_found"]]
                /\ log' = [log EXCEPT ![p] = {"error: file not found"}]
                /\ pc' = pc
        /\ UNCHANGED <<manufacturers, deviceTypes, components, fixedVars>>

\* run, 282: Manufacturer.objects.update_or_create(name=manufacturer_name)
EnsureManufacturer(p) ==
    /\ pc[p] = "run_manufacturer"
    /\ manufacturers' = manufacturers \cup {data[p].manufacturer}
    /\ pc' = [pc EXCEPT ![p] = "run_git"]
    /\ UNCHANGED <<deviceTypes, components, fixedVars, data, git_repo, devtype,
                   key, exc, log, hist, runs>>

\* run, 285-295: the repository lookup, then the call of the importer
GetGitRepository(p) ==
    /\ pc[p] = "run_git"
    /\ git_repo' = [git_repo EXCEPT ![p] = IF gitRepos THEN "repo" ELSE "None"]
    /\ log' = [log EXCEPT ![p] =
                  IF gitRepos THEN @ ELSE @ \cup {"warning: git repository not found"}]
    /\ hist' = [hist EXCEPT ![p].existed =
                   Matching(deviceTypes, PairOf(p)[1], PairOf(p)[2]) # {}]
    /\ pc' = [pc EXCEPT ![p] = "lookup"]
    /\ UNCHANGED <<manufacturers, deviceTypes, components, fixedVars, data,
                   devtype, key, exc, runs>>

\* import_device_type_with_images(data, git_repo) called without the job
CallImport(p, d, g) ==
    /\ p \in workers
    /\ pc[p] = "idle"
    /\ runs > 0
    /\ runs' = runs - 1
    /\ data' = [data EXCEPT ![p] = d]
    /\ git_repo' = [git_repo EXCEPT ![p] = g]
    /\ exc' = [exc EXCEPT ![p] = "None"]
    /\ devtype' = [devtype EXCEPT ![p] = NoDevType]
    /\ key' = [key EXCEPT ![p] = 1]
    /\ log' = [log EXCEPT ![p] = {}]
    /\ hist' = [hist EXCEPT ![p] =
                   [NoHist EXCEPT !.via = "direct",
                                  !.existed = Matching(deviceTypes, d.manufacturer,
                                                       d.model) # {}]]
    /\ pc' = [pc EXCEPT ![p] = "lookup"]
    /\ UNCHANGED <<manufacturers, deviceTypes, components, fixedVars>>

\* the exception e leaves import_device_type_with_images at step `at`
Raises(p, e, at) ==
    /\ exc' = [exc EXCEPT ![p] = e]
    /\ log' = [log EXCEPT ![p] = RunHandler(p, e)]
    /\ hist' = [hist EXCEPT ![p].ended = at]
    /\ pc' = [pc EXCEPT ![p] = "idle"]

\* 124-125: Manufacturer.objects.get(name=data.get("manufacturer"))
LookupManufacturer(p) ==
    /\ pc[p] = "lookup"
    /\ IF data[p].manufacturer \in manufacturers
       THEN /\ pc' = [pc EXCEPT ![p] = "check"]
            /\ hist' = [hist EXCEPT ![p].steps = Append(@, "lookup")]
            /\ UNCHANGED <<exc, log>>
       ELSE Raises(p, "DoesNotExist", "lookup")
    /\ UNCHANGED <<manufacturers, deviceTypes, components, fixedVars, data,
                   git_repo, devtype, key, runs>>

\* 127-133: QuerySet.get under suppress(DoesNotExist), then raise ValueError
DuplicateCheck(p) ==
    LET found == Cardinality(Matching(deviceTypes, PairOf(p)[1], PairOf(p)[2]))
    IN  /\ pc[p] = "check"
        /\ IF found = 0
           THEN /\ pc' = [pc EXCEPT ![p] = "create"]
                /\ hist' = [hist EXCEPT ![p].steps = Append(@, "check")]
                /\ UNCHANGED <<exc, log>>
           ELSE IF found = 1
           THEN Raises(p, "ValueError", "check")
           ELSE Raises(p, "MultipleObjectsReturned", "check")
        /\ UNCHANGED <<manufacturers, deviceTypes, components, fixedVars, data,
                       git_repo, devtype, key, runs>>

\* where the importer goes after the component kind at index i - 1
AfterKey(d, i) == IF NextKey(d, i) <= Len(COMPONENTS) THEN "components" ELSE "front_image"

\* 135-140: DeviceTypeImportForm(data).save()
CreateDeviceType(p) ==
    /\ pc[p] = "create"
    /\ IF uniqueTogether /\ Matching(deviceTypes, PairOf(p)[1], PairOf(p)[2]) # {}
       THEN /\ \E e \in CreateRejections : Raises(p, e, "create")
            /\ UNCHANGED <<deviceTypes, devtype, key>>
       ELSE /\ deviceTypes' = Append(deviceTypes,
                                 [manufacturer |-> data[p].manufacturer,
                                  model |-> data[p].model,
                                  front_image |-> NoImage, rear_image |-> NoImage,
                                  cf |-> NoCf])
            /\ devtype' = [devtype EXCEPT ![p] = [NoDevType EXCEPT !.pk = Len(deviceTypes) + 1]]
            /\ key' = [key EXCEPT ![p] = NextKey(data[p], 1)]
            /\ pc' = [pc EXCEPT ![p] = AfterKey(data[p], 1)]
            /\ hist' = [hist EXCEPT ![p].steps = Append(@, "create")]
            /\ log' = [log EXCEPT ![p] = Logged(p, "info: created device type")]
            /\ UNCHANGED exc
    /\ UNCHANGED <<manufacturers, components, fixedVars, data, git_repo, runs>>

\* 143-155, one iteration for a key in data: the list is built, then bulk_create
\* persists all of it or raises and persists none of it
ImportComponents(p) ==
    LET k == COMPONENTS[key[p]]
        component_list == ComponentList(k, devtype[p].pk, data[p].items[k])
    IN  /\ pc[p] = "components"
        /\ \E ok \in BOOLEAN :
              IF ok \/ component_list = <<>>
              THEN /\ components' = components \o component_list
                   /\ key' = [key EXCEPT ![p] = NextKey(data[p], key[p] + 1)]
                   /\ pc' = [pc EXCEPT ![p] = AfterKey(data[p], key[p] + 1)]
                   /\ hist' = [hist EXCEPT ![p].steps = Append(@, k)]
                   /\ log' = [log EXCEPT ![p] = Logged(p, "info: created components")]
                   /\ UNCHANGED exc
              ELSE /\ Raises(p, "ValidationError", k)
                   /\ UNCHANGED <<components, key>>
        /\ UNCHANGED <<manufacturers, deviceTypes, fixedVars, data, git_repo,
                       devtype, runs>>

\* the exception is not caught
HandledNot(e) == e

\* except Exception as e: logger.warning(...) at 174-176, 194-196 and 225-227:
\* the exception that leaves the try statement ("None": it is swallowed)
Handled(e) == "None"

\* the outcomes of open() and FieldFile.save(name, File, save=True) at 165-171:
\* the image is stored and the instance saved; open() raises; or the instance's
\* save raises after the field was set on the in-memory instance
AttachOutcomes == {"imported", "open_failed", "save_failed"}

\* 162-179 for image_type "front", 182-199 for "rear"
ImportImage(p, image_type, field, next) ==
    LET path == find_elevation_image(fs, RepoPath, data[p].manufacturer,
                                     data[p].model, image_type)
        attached == [devtype[p] EXCEPT ![field] = Basename(path)]
    IN  /\ IF git_repo[p] # "None" /\ Truthy(data[p].fields, field)
           THEN IF path # NoPath
                THEN \E outcome \in AttachOutcomes :
                        LET escaped == IF outcome = "imported" THEN "None"
                                       ELSE Handled("OSError")
                        IN  /\ devtype' = [devtype EXCEPT ![p] =
                                              IF outcome = "open_failed" THEN @ ELSE attached]
                            /\ deviceTypes' = IF outcome = "imported"
                                              THEN SaveInstance(deviceTypes, attached)
                                              ELSE deviceTypes
                            /\ IF escaped = "None"
                               THEN /\ hist' = [hist EXCEPT ![p][image_type] = outcome,
                                                            ![p].steps = Append(@, field)]
                                    /\ log' = [log EXCEPT ![p] =
                                                  Logged(p, IF outcome = "imported"
                                                            THEN "info: imported image"
                                                            ELSE "warning: failed to import image")]
                                    /\ pc' = [pc EXCEPT ![p] = next]
                                    /\ UNCHANGED exc
                               ELSE /\ hist' = [hist EXCEPT ![p][image_type] = outcome,
                                                            ![p].steps = Append(@, field),
                                                            ![p].ended = field]
                                    /\ log' = [log EXCEPT ![p] = RunHandler(p, escaped)]
                                    /\ pc' = [pc EXCEPT ![p] = "idle"]
                                    /\ exc' = [exc EXCEPT ![p] = escaped]
                ELSE /\ hist' = [hist EXCEPT ![p][image_type] = "not_found"]
                     /\ log' = [log EXCEPT ![p] = Logged(p, "warning: image not found")]
                     /\ pc' = [pc EXCEPT ![p] = next]
                     /\ UNCHANGED <<devtype, deviceTypes, exc>>
           ELSE /\ hist' = [hist EXCEPT ![p][image_type] = "skipped"]
                /\ pc' = [pc EXCEPT ![p] = next]
                /\ UNCHANGED <<devtype, deviceTypes, log, exc>>
        /\ UNCHANGED <<manufacturers, components, fixedVars, data, git_repo, key, runs>>

ImportFrontImage(p) ==
    /\ pc[p] = "front_image"
    /\ ImportImage(p, "front", "front_image", "rear_image")

ImportRearImage(p) ==
    /\ pc[p] = "rear_image"
    /\ ImportImage(p, "rear", "rear_image", "custom_fields")

\* the outcomes of 217-227: every value is staged and the instance saved; the
\* staging loop raises after some values; or save() raises after all of them
BackfillOutcomes == {"set", "stage_failed", "save_failed"}

\* 201-229, and the return to the caller (run, 307-310)
SetCustomFields(p) ==
    LET n == Len(CfData(data[p]))
    IN  /\ pc[p] = "custom_fields"
        /\ pc' = [pc EXCEPT ![p] = "idle"]
        /\ IF n > 0
           THEN \E outcome \in BackfillOutcomes :
                \E staged \in IF outcome = "stage_failed" THEN 0..(n - 1) ELSE {n} :
                   LET inst == [devtype[p] EXCEPT !.cf = Staged(@, data[p], staged)]
                       escaped == IF outcome = "set" THEN "None" ELSE Handled("Exception")
                   IN  /\ devtype' = [devtype EXCEPT ![p] = inst]
                       /\ deviceTypes' = IF outcome = "set"
                                         THEN SaveInstance(deviceTypes, inst)
                                         ELSE deviceTypes
                       /\ hist' = [hist EXCEPT
                                      ![p].cf = outcome,
                                      ![p].cf_before = deviceTypes[devtype[p].pk].cf,
                                      ![p].steps = Append(@, "custom_fields"),
                                      ![p].ended = IF escaped = "None" THEN "returned"
                                                   ELSE "custom_fields"]
                       /\ exc' = [exc EXCEPT ![p] = escaped]
                       /\ log' = [log EXCEPT ![p] =
                                     IF escaped = "None"
                                     THEN Logged(p, IF outcome = "set"
                                                    THEN "info: set custom fields"
                                                    ELSE "warning: failed to set custom fields")
                                          \cup Logged(p, "info: successfully imported")
                                     ELSE RunHandler(p, escaped)]
           ELSE /\ hist' = [hist EXCEPT ![p].cf = "skipped",
                                        ![p].cf_before = deviceTypes[devtype[p].pk].cf,
                                        ![p].ended = "returned"]
                /\ log' = [log EXCEPT ![p] = Logged(p, "info: successfully imported")]
                /\ UNCHANGED <<devtype, deviceTypes, exc>>
        /\ UNCHANGED <<manufacturers, components, fixedVars, data, git_repo, key, runs>>

(***************************************************************************)
(* Direct calls of the two pure helpers.                                   *)
(***************************************************************************)
NotCalled == [called |-> FALSE, value |-> <<>>]

CallSlugify ==
    /\ ~ret.called
    /\ ret' = [called |-> TRUE, value |-> slugify_device_name(arg.m, arg.d)]
    /\ UNCHANGED <<storeVars, procVars, arg>>

CallFindElevationImage ==
    /\ ~ret.called
    /\ ret' = [called |-> TRUE,
               value |-> find_elevation_image(fs, RepoPath, arg.m, arg.d, arg.image_type)]
    /\ UNCHANGED <<storeVars, procVars, arg>>

(***************************************************************************)
(* Inputs.                                                                 *)
(***************************************************************************)
Procs == {"w1", "w2"}

SeqsUpTo(S, n) == UNION {[1..k -> S] : k \in 0..n}

\* upper case, lower case, digit, whitespace, underscore, hyphen, punctuation
SlugAlphabet == {"A", "b", "1", " ", "_", "-", "!"}

MfrAc == <<"A", "c">>
ModelX1 == <<"X", "1">>
ModelY == <<"Y">>

ItemPlain == [name |-> "p1", poe_mode |-> Missing, poe_type |-> Missing]
ItemPoe == [name |-> "p2", poe_mode |-> "pd", poe_type |-> "type2"]

ItemLists == SeqsUpTo({ItemPlain, ItemPoe}, MaxItems)

KindSets == {K \in SUBSET ComponentKeys : Cardinality(K) <= MaxKinds}

MakeData(m, d, K, items, fields) ==
    [manufacturer |-> m, model |-> d, kinds |-> K,
     items |-> [k \in ComponentKeys |-> IF k \in K THEN items ELSE <<>>],
     fields |-> fields]

NoFields == [k \in DataKeys |-> Missing]

\* the scalar fields a data dictionary may carry besides the image flags
ScalarSets == {{}, {"slug"}, {"weight", "weight_unit"},
               {"slug", "weight", "weight_unit", "airflow"}}

FieldMaps ==
    {[k \in DataKeys |->
         IF k = "front_image" THEN f
         ELSE IF k = "rear_image" THEN r
         ELSE IF k \in S THEN "v-" \o k ELSE Missing] :
     S \in ScalarSets, f \in {Missing, "True", "False"}, r \in {Missing, "True", "False"}}

AllFields == [k \in DataKeys |->
                 IF k \in {"front_image", "rear_image"} THEN "True" ELSE "v-" \o k]

\* data dictionaries that vary the component lists
ComponentFocus ==
    {MakeData(MfrAc, ModelX1, K, items, AllFields) :
        K \in KindSets, items \in ItemLists}

\* data dictionaries that vary the image flags and the custom fields
EnrichFocus ==
    {MakeData(MfrAc, ModelX1, K, <<ItemPoe, ItemPlain>>, f) :
        K \in {{}, {"interfaces"}}, f \in FieldMaps}

\* the two device types of the concurrent specification
RaceFields == [k \in DataKeys |->
                  IF k = "front_image" THEN "True"
                  ELSE IF k = "slug" THEN "v-slug" ELSE Missing]
RaceFull == MakeData(MfrAc, ModelX1, {"interfaces"}, <<ItemPoe>>, RaceFields)
RaceBare == MakeData(MfrAc, ModelY, {}, <<>>, NoFields)

\* elevation-images/Ac of the repository and the images of Ac X1 in it
AcDir == << <<"repo">>, <<"elevation-images">>, <<"A", "c">> >>

AcImage(image_type, ext) ==
    Append(AcDir, <<"a", "c", "-", "x", "1", ".", image_type, ext>>)

ImportFilesystems ==
    { {},
      {AcDir},
      {AcDir, AcImage("front", ".png")},
      {AcDir, AcImage("rear", ".svg")},
      {AcDir, AcImage("front", ".jpg"), AcImage("front", ".png"), AcImage("rear", ".jpeg")} }

InitWorkers(W, budget) ==
    /\ workers = W
    /\ pc = [p \in Procs |-> "idle"]
    /\ data = [p \in Procs |-> NoData]
    /\ git_repo = [p \in Procs |-> "None"]
    /\ devtype = [p \in Procs |-> NoDevType]
    /\ key = [p \in Procs |-> 1]
    /\ exc = [p \in Procs |-> "None"]
    /\ log = [p \in Procs |-> {}]
    /\ hist = [p \in Procs |-> NoHist]
    /\ runs = budget

InitStore ==
    /\ manufacturers = {}
    /\ deviceTypes = <<>>
    /\ components = <<>>

\* two workers, two device-type files.  The module imports DeviceType and
\* does not say whether the store itself refuses a second row of the same
\* manufacturer and model: both stores are initial states.
Init ==
    /\ InitWorkers(Procs, MaxRuns)
    /\ InitStore
    /\ deviceTypeImports = [f \in {"full.yaml", "bare.yaml"} |->
                               IF f = "full.yaml" THEN RaceFull ELSE RaceBare]
    /\ gitRepos \in BOOLEAN
    /\ uniqueTogether \in BOOLEAN
    /\ fs \in {{}, {AcDir, AcImage("front", ".png")}}
    /\ arg = <<>>
    /\ ret = NotCalled

\* one worker, one device-type file drawn from the two focus sets
InitImport ==
    /\ InitWorkers({"w1"}, MaxSerialRuns)
    /\ InitStore
    /\ \/ /\ \E d \in ComponentFocus : deviceTypeImports = [f \in {"full.yaml"} |-> d]
          /\ gitRepos = TRUE
          /\ fs = {AcDir, AcImage("front", ".png")}
       \/ /\ \E d \in EnrichFocus : deviceTypeImports = [f \in {"full.yaml"} |-> d]
          /\ gitRepos \in BOOLEAN
          /\ fs \in ImportFilesystems
    /\ uniqueTogether = TRUE
    /\ arg = <<>>
    /\ ret = NotCalled

InitSlug ==
    /\ InitWorkers({}, 0)
    /\ InitStore
    /\ deviceTypeImports = <<>>
    /\ gitRepos = FALSE
    /\ uniqueTogether = TRUE
    /\ fs = {}
    /\ arg \in [m : SeqsUpTo(SlugAlphabet, MaxLen), d : SeqsUpTo(SlugAlphabet, MaxLen)]
    /\ ret = NotCalled

Filenames == {"full.yaml", "bare.yaml", ""}

\* the job is run on a file name of the dashboard's choosing
RunAnyJob(p) == \E filename \in Filenames : RunJob(p, filename)

\* the importer is called on a data dictionary, with or without a repository
CallAnyImport(p) ==
    \E f \in DOMAIN deviceTypeImports, g \in {"None", "repo"} :
        CallImport(p, deviceTypeImports[f], g)

Next ==
    \E p \in Procs :
        \/ RunAnyJob(p)
        \/ EnsureManufacturer(p)
        \/ GetGitRepository(p)
        \/ CallAnyImport(p)
        \/ LookupManufacturer(p)
        \/ DuplicateCheck(p)
        \/ CreateDeviceType(p)
        \/ ImportComponents(p)
        \/ ImportFrontImage(p)
        \/ ImportRearImage(p)
        \/ SetCustomFields(p)

Spec == Init /\ [][Next]_vars

SpecImport == InitImport /\ [][Next]_vars

SpecSlug == InitSlug /\ [][CallSlugify]_vars

(***************************************************************************)
(* Inputs of the direct calls of find_elevation_image: a manufacturer, a   *)
(* model, the directory the three path parts join to and the slug, both    *)
(* written out, and a second directory that must not be searched.          *)
(***************************************************************************)
ResolveCases ==
    { [m |-> <<"A", "c">>, d |-> <<"X", "1">>,
       dir |-> << <<"repo">>, <<"elevation-images">>, <<"A", "c">> >>,
       slug |-> <<"a", "c", "-", "x", "1">>,
       decoy |-> << <<"repo">>, <<"elevation-images">>, <<"a", "c">> >>],
      [m |-> <<"P", " ", "a">>, d |-> <<"x", "_", "1">>,
       dir |-> << <<"repo">>, <<"elevation-images">>, <<"P", " ", "a">> >>,
       slug |-> <<"p", "-", "a", "-", "x", "-", "1">>,
       decoy |-> << <<"repo">>, <<"elevation-images">>, <<"p", "-", "a">> >>],
      [m |-> <<"/", "m">>, d |-> <<"1">>,
       dir |-> << <<"m">> >>,
       slug |-> <<"m", "-", "1">>,
       decoy |-> << <<"repo">>, <<"elevation-images">>, <<"m">> >>] }

CaseFile(dir, slug, image_type, ext) == Append(dir, slug \o <<".", image_type, ext>>)

\* the image files a filesystem state may hold for a case
CaseFiles(c) ==
    {CaseFile(c.dir, c.slug, "front", Extensions[i]) : i \in 1..Len(Extensions)}
    \cup {CaseFile(c.dir, c.slug, "rear", ".png"), CaseFile(c.dir, c.slug, "rear", ".svg")}

\* filesystem states: a file exists only in a directory that exists
CaseFilesystems(c) ==
    {main \cup other :
        main \in {{}} \cup {{c.dir} \cup F : F \in SUBSET CaseFiles(c)},
        other \in {{}, {c.decoy},
                   {c.decoy, CaseFile(c.decoy, c.slug, "front", ".png"),
                             CaseFile(c.decoy, c.slug, "rear", ".png")}}}

InitResolve ==
    /\ InitWorkers({}, 0)
    /\ InitStore
    /\ deviceTypeImports = <<>>
    /\ gitRepos = TRUE
    /\ uniqueTogether = TRUE
    /\ \E c \in ResolveCases :
          /\ fs \in CaseFilesystems(c)
          /\ \E t \in {"front", "rear"} :
                arg = [m |-> c.m, d |-> c.d, image_type |-> t, case |-> c]
    /\ ret = NotCalled

SpecResolve == InitResolve /\ [][CallFindElevationImage]_vars

(***************************************************************************)
(* The claims.  What a claim names (the kind order, the denylist, the      *)
(* extension order, the custom-field mapping) is written out here again,   *)
(* apart from the tables the importer reads.                               *)
(***************************************************************************)
SeqToSet(q) == {q[i] : i \in 1..Len(q)}

ClaimKindOrder ==
    <<"console-ports", "console-server-ports", "power-ports", "power-outlets",
      "interfaces", "rear-ports", "front-ports", "device-bays", "module-bays">>

ClaimKindPos(k) == CHOOSE i \in 1..Len(ClaimKindOrder) : ClaimKindOrder[i] = k

ClaimDenylist(k) == IF k = "interfaces" THEN {"poe_mode", "poe_type"} ELSE {}

ClaimExtensionOrder == <<".png", ".jpg", ".jpeg", ".svg">>

\* the spec field a custom-field key is filled from
ClaimSpecField(cf_key) ==
    CASE cf_key = "cf_slug" -> "slug"
      [] cf_key = "cf_weight" -> "weight"
      [] cf_key = "cf_weight_unit" -> "weight_unit"
      [] cf_key = "cf_airflow" -> "airflow"
      [] cf_key = "cf_front_image" -> "front_image"
      [] cf_key = "cf_rear_image" -> "rear_image"

\* one component per item, in order, the denylisted fields absent
ExpectedComponents(pk, k, items) ==
    [i \in 1..Len(items) |->
        [device_type |-> pk, kind |-> k,
         fields |-> [f \in ItemFields |->
                        IF f \in ClaimDenylist(k) THEN Missing ELSE items[i][f]]]]

\* the row of the device type worker p created is in the store, as created
BaseRecordPersisted(p) ==
    /\ devtype[p].pk \in 1..Len(deviceTypes)
    /\ deviceTypes[devtype[p].pk].manufacturer = data[p].manufacturer
    /\ deviceTypes[devtype[p].pk].model = data[p].model

\* every kind of the data of worker p is in the store, whole, and nothing else
AllComponentsPersisted(p) ==
    \A k \in ComponentKeys :
        ComponentsOf(components, devtype[p].pk, k) =
            IF k \in data[p].kinds
            THEN ExpectedComponents(devtype[p].pk, k, data[p].items[k])
            ELSE <<>>

WriteSteps == ComponentKeys \cup {"create", "front_image", "rear_image", "custom_fields"}

WroteNothing(p) ==
    /\ SeqToSet(hist[p].steps) \cap WriteSteps = {}
    /\ devtype[p] = NoDevType

\* a string of [a-z0-9-] with no hyphen first, last or doubled
WellFormedSlug(s) ==
    /\ \A i \in 1..Len(s) : s[i] \in LowerSet \cup Digits \cup {"-"}
    /\ s # <<>> => s[1] # "-" /\ s[Len(s)] # "-"
    /\ \A i \in 1..(Len(s) - 1) : ~(s[i] = "-" /\ s[i + 1] = "-")

\* C8: for every manufacturer and model over the alphabet, the slug holds only
\* [a-z0-9-], has no leading, trailing or doubled hyphen, and slugifying the
\* slug again (as manufacturer, with an empty model) gives the same slug.
C8_SlugWellFormed ==
    ret.called =>
        /\ WellFormedSlug(ret.value)
        /\ WellFormedSlug(slugify_device_name(ret.value, <<>>))
        /\ slugify_device_name(ret.value, <<>>) = ret.value

\* mixed case, repeated whitespace and underscore, punctuation: "A " + " " + "_!"
C8_Witness ==
    /\ ret.called
    /\ arg.m = <<"A", " ">>
    /\ arg.d = <<"_", "!">>
    /\ ret.value = <<"a">>

\* the path string of a sequence of components below the root
RECURSIVE AbsolutePath(_)
AbsolutePath(parts) ==
    IF parts = <<>> THEN <<>> ELSE <<"/">> \o parts[1] \o AbsolutePath(Tail(parts))

C9_ComponentsMaterialized ==
    \A p \in workers :
        /\ \A k \in ComponentKeys :
              k \in SeqToSet(hist[p].steps) =>
                  /\ BaseRecordPersisted(p)
                  /\ Len(ComponentsOf(components, devtype[p].pk, k)) = Len(data[p].items[k])
                  /\ ComponentsOf(components, devtype[p].pk, k) =
                         ExpectedComponents(devtype[p].pk, k, data[p].items[k])
        /\ (pc[p] = "idle" /\ "create" \in SeqToSet(hist[p].steps) /\ data[p].kinds = {}) =>
              /\ hist[p].ended = "returned"
              /\ exc[p] = "None"
              /\ BaseRecordPersisted(p)
              /\ \A i \in 1..Len(components) : components[i].device_type # devtype[p].pk

\* an interfaces list with the power-over-Ethernet fields and a console-ports
\* list with the same items: stripped in the one, kept in the other
C9_Witness ==
    \E p \in workers :
        /\ data[p].items["interfaces"] = <<ItemPoe, ItemPlain>>
        /\ data[p].items["console-ports"] = <<ItemPoe, ItemPlain>>
        /\ {"console-ports", "interfaces"} \subseteq SeqToSet(hist[p].steps)
        /\ LET made == ComponentsOf(components, devtype[p].pk, "interfaces")
               ports == ComponentsOf(components, devtype[p].pk, "console-ports")
           IN  /\ Len(made) = 2
               /\ made[1].fields = [name |-> "p2", poe_mode |-> Missing, poe_type |-> Missing]
               /\ made[2].fields.name = "p1"
               /\ ports[1].fields = ItemPoe

\* C4: when materializing kind k fails, the failure leaves the import, and the
\* store holds the base record, every component of each kind of the data that
\* precedes k in the fixed order, no component of k or of a later kind, no
\* image and no custom field.
C4_PartialFailure ==
    \A p \in workers :
        hist[p].ended \in ComponentKeys =>
            /\ pc[p] = "idle"
            /\ exc[p] # "None"
            /\ BaseRecordPersisted(p)
            /\ \A k \in ComponentKeys :
                  ComponentsOf(components, devtype[p].pk, k) =
                      IF k \in data[p].kinds /\ ClaimKindPos(k) < ClaimKindPos(hist[p].ended)
                      THEN ExpectedComponents(devtype[p].pk, k, data[p].items[k])
                      ELSE <<>>
            /\ deviceTypes[devtype[p].pk].front_image = NoImage
            /\ deviceTypes[devtype[p].pk].rear_image = NoImage
            /\ deviceTypes[devtype[p].pk].cf = NoCf
            /\ SeqToSet(hist[p].steps) \cap {"front_image", "rear_image", "custom_fields"} = {}

\* interfaces persisted, then rear-ports fails
C4_Witness ==
    \E p \in workers :
        /\ hist[p].ended = "rear-ports"
        /\ data[p].kinds = {"interfaces", "rear-ports"}
        /\ Len(ComponentsOf(components, devtype[p].pk, "interfaces")) = 2
        /\ ComponentsOf(components, devtype[p].pk, "rear-ports") = <<>>
        /\ exc[p] = "ValidationError"

\* the data of worker p asks for a rear image and the filesystem holds one
RearImageAvailable(p) ==
    /\ git_repo[p] = "repo"
    /\ data[p].fields["rear_image"] = "True"
    /\ data[p].manufacturer = MfrAc
    /\ data[p].model = ModelX1
    /\ AcDir \in fs
    /\ \E i \in 1..Len(ClaimExtensionOrder) : AcImage("rear", ClaimExtensionOrder[i]) \in fs

\* C5: once an import has reached the image step, a missing image and a failed
\* attachment do not end it: the base record and all components stay, the rear
\* image is attempted whatever the front image did, the backfill step runs and
\* the import returns.
C5_ImagesBestEffort ==
    \A p \in workers :
        hist[p].front # "none" =>
            /\ exc[p] = "None"
            /\ pc[p] \in {"rear_image", "custom_fields", "idle"}
            /\ BaseRecordPersisted(p)
            /\ AllComponentsPersisted(p)
            /\ pc[p] \in {"custom_fields", "idle"} =>
                  /\ hist[p].rear # "none"
                  /\ RearImageAvailable(p) => hist[p].rear \in AttachOutcomes
            /\ pc[p] = "idle" => hist[p].cf # "none" /\ hist[p].ended = "returned"

\* the front image cannot be read, the rear image is attached, the import returns
C5_Witness ==
    \E p \in workers :
        /\ hist[p].front = "open_failed"
        /\ hist[p].rear = "imported"
        /\ hist[p].cf = "set"
        /\ hist[p].ended = "returned"
        /\ data[p].kinds = {"interfaces"}
        /\ deviceTypes[devtype[p].pk].front_image = NoImage
        /\ deviceTypes[devtype[p].pk].rear_image # NoImage

\* every mapped spec field that is present, on top of the values before
ClaimStaged(d, cf_before) ==
    [k \in DOMAIN cf_before |->
        IF d.fields[ClaimSpecField(k)] # Missing
        THEN d.fields[ClaimSpecField(k)]
        ELSE cf_before[k]]

\* C6: a failure while staging or persisting the custom fields does not leave
\* the import: it returns the record, the base record and the components stay,
\* and the persisted custom fields are all the staged values or the values
\* before the backfill; with no mapped spec field present nothing is staged
\* and nothing persisted.
C6_BackfillContained ==
    \A p \in workers :
        hist[p].cf # "none" =>
            /\ pc[p] = "idle"
            /\ exc[p] = "None"
            /\ hist[p].ended = "returned"
            /\ BaseRecordPersisted(p)
            /\ AllComponentsPersisted(p)
            /\ deviceTypes[devtype[p].pk].cf \in
                  {ClaimStaged(data[p], hist[p].cf_before), hist[p].cf_before}
            /\ hist[p].cf = "set" =>
                  deviceTypes[devtype[p].pk].cf = ClaimStaged(data[p], hist[p].cf_before)
            /\ (\A k \in CfKeys : data[p].fields[ClaimSpecField(k)] = Missing) =>
                  /\ hist[p].cf = "skipped"
                  /\ "custom_fields" \notin SeqToSet(hist[p].steps)
                  /\ deviceTypes[devtype[p].pk].cf = hist[p].cf_before
                  /\ devtype[p].cf = hist[p].cf_before

\* the save of the staged values fails: the record is returned, its persisted
\* custom fields are those before the backfill
C6_Witness ==
    \E p \in workers :
        /\ hist[p].cf = "save_failed"
        /\ hist[p].ended = "returned"
        /\ data[p].fields["slug"] # Missing
        /\ data[p].fields["weight"] # Missing
        /\ devtype[p].cf["cf_slug"] # Missing
        /\ deviceTypes[devtype[p].pk].cf = NoCf

\* the place of a step in the order the claim gives
ClaimRank(e) ==
    CASE e = "lookup" -> 1
      [] e = "check" -> 2
      [] e = "create" -> 3
      [] e \in ComponentKeys -> 3 + ClaimKindPos(e)
      [] e = "front_image" -> 13
      [] e = "rear_image" -> 14
      [] e = "custom_fields" -> 15

\* C10: the steps of one import occur in the order manufacturer lookup,
\* duplicate check, base record creation, components in table order, front
\* image, rear image, backfill; nothing is written before the base record is
\* created; it is not created when the manufacturer is absent or a duplicate
\* was found; an image is attached only with a repository and a set flag.
C10_StepOrder ==
    \A p \in workers :
        LET steps == hist[p].steps
            done == SeqToSet(steps)
        IN  /\ \A i, j \in 1..Len(steps) : i < j => ClaimRank(steps[i]) < ClaimRank(steps[j])
            /\ (done \cap WriteSteps # {}) =>
                  /\ Len(steps) >= 3
                  /\ steps[1] = "lookup" /\ steps[2] = "check" /\ steps[3] = "create"
                  /\ data[p].manufacturer \in manufacturers
                  /\ BaseRecordPersisted(p)
            /\ "create" \notin done => devtype[p] = NoDevType
            /\ hist[p].ended \in {"lookup", "check"} => "create" \notin done
            /\ "front_image" \in done =>
                  git_repo[p] = "repo" /\ data[p].fields["front_image"] = "True"
            /\ "rear_image" \in done =>
                  git_repo[p] = "repo" /\ data[p].fields["rear_image"] = "True"

\* an import that went through every step
C10_Witness ==
    \E p \in workers :
        hist[p].steps = <<"lookup", "check", "create", "interfaces", "front_image",
                          "rear_image", "custom_fields">>

\* C2: no two rows of DeviceType hold the same manufacturer and model.
C2_UniquePair ==
    \A i, j \in 1..Len(deviceTypes) :
        (deviceTypes[i].manufacturer = deviceTypes[j].manufacturer
         /\ deviceTypes[i].model = deviceTypes[j].model) => i = j

\* C1: an import called while the store holds a device type of its manufacturer
\* and model ends with the duplicate error (the ValueError of 130) and has
\* written nothing.
C1_DuplicateRejected ==
    \A p \in workers :
        (hist[p].existed /\ pc[p] = "idle") =>
            /\ exc[p] = "ValueError"
            /\ hist[p].ended = "check"
            /\ WroteNothing(p)

\* C3: an import whose base-record creation the store refuses ends like a
\* duplicate found by the check: with the ValueError run's handler catches and
\* logs as "already exists", and with nothing written.
C3_RefusalIsDuplicate ==
    \A p \in workers :
        hist[p].ended = "create" =>
            /\ exc[p] = "ValueError"
            /\ hist[p].via = "run" => "error: already exists" \in log[p]
            /\ WroteNothing(p)

====
